---- MODULE Spec2Model ----
(***************************************************************************)
(* Search-query toggle engine of task_processor/search.py, with the       *)
(* reminder log of task_processor/services.py and the item flow of        *)
(* task_processor/models/item.py.                                          *)
(*                                                                         *)
(* A query string is a sequence of one-character strings, so that the     *)
(* tokenizer, the value normalisation and the canonical rebuild are        *)
(* computed character by character as the Python code computes them.       *)
(***************************************************************************)
EXTENDS Integers, Sequences, FiniteSets, TLC

VARIABLES
    search_query,   \* the query string of the search box (get_search_query of the view)
    last,           \* the last call of generate_future_query: arguments, tokens, result
    clicks,         \* number of chip clicks made since the query was typed
    trail,          \* the chip clicked last and the queries its consecutive clicks produced
    heap,           \* the SearchTokens objects allocated so far, an object's id its index
    frames,         \* for each thread, the call it runs: arguments, locals, position
    item,           \* the fields of one Item the flow and the reminders read and write
    fired,          \* the transition of ItemFlow called last, with its arguments
    logs,           \* the rows of ItemReminderLog, a row's id its index
    reminded        \* the last call of ReminderService._process_reminder

\* the variables of the search box
searchVars == <<search_query, last, clicks, trail>>

\* the variables of the calls that run side by side
threadVars == <<heap, frames>>

\* the variables of the item and its flow
itemVars == <<item, fired>>

\* the variables of the reminders
reminderVars == <<logs, reminded>>

vars == <<searchVars, threadVars, itemVars, reminderVars>>

----------------------------------------------------------------------------
(* Characters and Python's str helpers *)

UpperCase == <<"A","B","C","D","E","F","G","H","I","J","K","L","M",
               "N","O","P","Q","R","S","T","U","V","W","X","Y","Z">>

LowerCase == <<"a","b","c","d","e","f","g","h","i","j","k","l","m",
               "n","o","p","q","r","s","t","u","v","w","x","y","z">>

DigitChars == {"0","1","2","3","4","5","6","7","8","9"}

Range(f) == {f[i] : i \in DOMAIN f}

\* \w of the re module: letters, digits and the underscore
WordChars == Range(UpperCase) \cup Range(LowerCase) \cup DigitChars \cup {"_"}

IsWordChar(c) == c \in WordChars

\* \s of the re module and the characters str.strip() removes
WhiteSpace == {" ", "\t", "\n"}

IsSpace(c) == c \in WhiteSpace

QUOTE == "\""

\* str.lower() on one character
LowerChar(c) ==
    IF c \in Range(UpperCase)
    THEN LowerCase[CHOOSE i \in DOMAIN UpperCase : UpperCase[i] = c]
    ELSE c

\* str.lower()
Lower(s) == [i \in DOMAIN s |-> LowerChar(s[i])]

\* s.strip(chars): drop the leading and trailing characters that are in cs
RECURSIVE LStripFrom(_, _, _)
LStripFrom(s, cs, i) ==
    IF i > Len(s) THEN i
    ELSE IF s[i] \in cs THEN LStripFrom(s, cs, i + 1) ELSE i

RECURSIVE RStripFrom(_, _, _)
RStripFrom(s, cs, j) ==
    IF j < 1 THEN j
    ELSE IF s[j] \in cs THEN RStripFrom(s, cs, j - 1) ELSE j

StripChars(s, cs) ==
    LET i == LStripFrom(s, cs, 1)
        j == RStripFrom(s, cs, Len(s))
    IN  IF i > j THEN <<>> ELSE SubSeq(s, i, j)

\* s.strip()
Strip(s) == StripChars(s, WhiteSpace)

\* sub in s, as a position: the first index where sub occurs in s, 0 when it does not
RECURSIVE FindFrom(_, _, _)
FindFrom(s, sub, i) ==
    IF i + Len(sub) - 1 > Len(s) THEN 0
    ELSE IF SubSeq(s, i, i + Len(sub) - 1) = sub THEN i
    ELSE FindFrom(s, sub, i + 1)

\* s.replace(old, new, 1)
ReplaceFirst(s, old, new) ==
    LET p == FindFrom(s, old, 1)
    IN  IF p = 0 THEN s
        ELSE SubSeq(s, 1, p - 1) \o new \o SubSeq(s, p + Len(old), Len(s))

\* sep.join(parts)
RECURSIVE Join(_, _)
Join(parts, sep) ==
    IF parts = <<>> THEN <<>>
    ELSE IF Len(parts) = 1 THEN parts[1]
    ELSE parts[1] \o sep \o Join(Tail(parts), sep)

\* s.split(","): the pieces between the commas, empty pieces included
RECURSIVE SplitComma(_, _, _)
SplitComma(s, i, cur) ==
    IF i > Len(s) THEN <<cur>>
    ELSE IF s[i] = "," THEN <<cur>> \o SplitComma(s, i + 1, <<>>)
    ELSE SplitComma(s, i + 1, Append(cur, s[i]))

\* t occurs in s
Contains(s, t) ==
    \E i \in 1..(Len(s) - Len(t) + 1) : SubSeq(s, i, i + Len(t) - 1) = t

\* x in list
InSeq(x, list) == \E i \in DOMAIN list : list[i] = x

\* list.remove(x): drops the first element equal to x
RemoveFirst(list, x) ==
    IF ~InSeq(x, list) THEN list
    ELSE LET p == CHOOSE i \in DOMAIN list :
                      list[i] = x /\ \A j \in 1..(i - 1) : list[j] # x
         IN  SubSeq(list, 1, p - 1) \o SubSeq(list, p + 1, Len(list))

----------------------------------------------------------------------------
(* SearchParser.FIELD_PATTERN and QUOTED_STRING_PATTERN *)

\* first index j >= i with s[j] not a word character (Len(s) + 1 when none): the end of \w+
RECURSIVE WordEnd(_, _)
WordEnd(s, i) ==
    IF i > Len(s) THEN i
    ELSE IF IsWordChar(s[i]) THEN WordEnd(s, i + 1) ELSE i

\* first index j >= i with s[j] whitespace (Len(s) + 1 when none): the end of [^\s]+
RECURSIVE NonSpaceEnd(_, _)
NonSpaceEnd(s, i) ==
    IF i > Len(s) THEN i
    ELSE IF IsSpace(s[i]) THEN i ELSE NonSpaceEnd(s, i + 1)

\* first index j >= i with s[j] a double quote, 0 when none: the end of [^"]*
RECURSIVE NextQuote(_, _)
NextQuote(s, i) ==
    IF i > Len(s) THEN 0
    ELSE IF s[i] = QUOTE THEN i ELSE NextQuote(s, i + 1)

\* (?:,"[^"]*")* after a closing quote at c, greedy: the index of the last closing quote
RECURSIVE QuotedTail(_, _)
QuotedTail(s, c) ==
    IF c + 2 <= Len(s) /\ s[c + 1] = "," /\ s[c + 2] = QUOTE /\ NextQuote(s, c + 3) # 0
    THEN QuotedTail(s, NextQuote(s, c + 3))
    ELSE c

\* "[^"]*"(?:,"[^"]*")* at v: the index of its last character, 0 when it does not match
QuotedEnd(s, v) ==
    IF v <= Len(s) /\ s[v] = QUOTE /\ NextQuote(s, v + 1) # 0
    THEN QuotedTail(s, NextQuote(s, v + 1))
    ELSE 0

\* FIELD_PATTERN.match at position i:  (-?)(\w+):((?:"[^"]*"(?:,"[^"]*")*)|(?:[^\s]+))
\* The quoted alternative is tried first; the groups are those of the match object.
FieldMatchAt(s, i) ==
    LET neg  == i <= Len(s) /\ s[i] = "-"
        w    == IF neg THEN i + 1 ELSE i
        e    == WordEnd(s, w)
        v    == e + 1
        q    == QuotedEnd(s, v)
        n    == NonSpaceEnd(s, v)
        stop == IF q # 0 THEN q ELSE n - 1
    IN  IF e > w /\ e <= Len(s) /\ s[e] = ":" /\ stop >= v
        THEN [ok |-> TRUE, group0 |-> SubSeq(s, i, stop), group1 |-> neg,
              group2 |-> SubSeq(s, w, e - 1), group3 |-> SubSeq(s, v, stop),
              end |-> stop]
        ELSE [ok |-> FALSE, group0 |-> <<>>, group1 |-> FALSE,
              group2 |-> <<>>, group3 |-> <<>>, end |-> i]

\* FIELD_PATTERN.finditer: the non-overlapping matches, left to right
RECURSIVE FindIter(_, _)
FindIter(s, i) ==
    IF i > Len(s) THEN <<>>
    ELSE LET m == FieldMatchAt(s, i)
         IN  IF m.ok THEN <<m>> \o FindIter(s, m.end + 1)
             ELSE FindIter(s, i + 1)

\* QUOTED_STRING_PATTERN.findall: the contents of the quoted segments, left to right
RECURSIVE QuotedFindAll(_, _)
QuotedFindAll(s, i) ==
    LET o == NextQuote(s, i)
        c == IF o = 0 THEN 0 ELSE NextQuote(s, o + 1)
    IN  IF o = 0 \/ c = 0 THEN <<>>
        ELSE <<SubSeq(s, o + 1, c - 1)>> \o QuotedFindAll(s, c + 1)

\* [v.strip() for v in pieces if v.strip()]
RECURSIVE StripNonEmpty(_)
StripNonEmpty(pieces) ==
    IF pieces = <<>> THEN <<>>
    ELSE IF Strip(Head(pieces)) = <<>> THEN StripNonEmpty(Tail(pieces))
    ELSE <<Strip(Head(pieces))>> \o StripNonEmpty(Tail(pieces))

\* faulty variant: an unquoted value is never split at its commas
_parse_field_value_Unsplit(value_string) ==
    IF InSeq(QUOTE, value_string)
    THEN QuotedFindAll(value_string, 1)
    ELSE <<value_string>>

\* SearchParser._parse_field_value
_parse_field_value(value_string) ==
    IF value_string # <<>> /\ Head(value_string) = QUOTE
       /\ value_string[Len(value_string)] = QUOTE
    THEN QuotedFindAll(value_string, 1)
    ELSE IF InSeq(QUOTE, value_string)
    THEN QuotedFindAll(value_string, 1)
    ELSE IF InSeq(",", value_string)
         THEN StripNonEmpty(SplitComma(value_string, 1, <<>>))
         ELSE <<value_string>>

----------------------------------------------------------------------------
(* SearchTokens: included and excluded are insertion-ordered dicts, modelled *)
(* as sequences of [field, values] entries in insertion order.               *)

HasField(dict, f) == \E i \in DOMAIN dict : dict[i].field = f

\* dict[f], and the empty list for a missing key
Values(dict, f) ==
    IF HasField(dict, f)
    THEN dict[CHOOSE i \in DOMAIN dict : dict[i].field = f].values
    ELSE <<>>

\* dict[f] = values (a new key goes last, an existing key keeps its place)
SetField(dict, f, values) ==
    IF HasField(dict, f)
    THEN [i \in DOMAIN dict |->
            IF dict[i].field = f THEN [field |-> f, values |-> values] ELSE dict[i]]
    ELSE Append(dict, [field |-> f, values |-> values])

\* del dict[f]
RECURSIVE DelField(_, _)
DelField(dict, f) ==
    IF dict = <<>> THEN <<>>
    ELSE IF Head(dict).field = f THEN Tail(dict)
    ELSE <<Head(dict)>> \o DelField(Tail(dict), f)

\* first index j >= i with s[j] not whitespace (Len(s) + 1 when none): the end of \s+
RECURSIVE NonSpaceStart(_, _)
NonSpaceStart(s, i) ==
    IF i > Len(s) THEN i
    ELSE IF IsSpace(s[i]) THEN NonSpaceStart(s, i + 1) ELSE i

\* re.sub(r"\s+", " ", s)
RECURSIVE CollapseSpaces(_, _)
CollapseSpaces(s, i) ==
    IF i > Len(s) THEN <<>>
    ELSE IF IsSpace(s[i])
         THEN <<" ">> \o CollapseSpaces(s, NonSpaceStart(s, i))
         ELSE <<s[i]>> \o CollapseSpaces(s, i + 1)

\* length of the match of (?:^|\s)"(?:\s|$) at position i, 0 when it does not match
StandaloneQuoteAt(s, i) ==
    IF i = 1 /\ s[1] = QUOTE /\ Len(s) >= 2 /\ IsSpace(s[2]) THEN 2
    ELSE IF i = 1 /\ s[1] = QUOTE /\ Len(s) = 1 THEN 1
    ELSE IF IsSpace(s[i]) /\ i + 2 <= Len(s) /\ s[i + 1] = QUOTE /\ IsSpace(s[i + 2]) THEN 3
    ELSE IF IsSpace(s[i]) /\ i + 1 = Len(s) /\ s[i + 1] = QUOTE THEN 2
    ELSE 0

\* re.sub(r'(?:^|\s)"(?:\s|$)', " ", s): the matches do not overlap
RECURSIVE DropStandaloneQuotes(_, _)
DropStandaloneQuotes(s, i) ==
    IF i > Len(s) THEN <<>>
    ELSE LET n == StandaloneQuoteAt(s, i)
         IN  IF n > 0 THEN <<" ">> \o DropStandaloneQuotes(s, i + n)
             ELSE <<s[i]>> \o DropStandaloneQuotes(s, i + 1)

\* SearchParser.forced_query of SearchParser(): kwargs.get("forced_query", "")
forced_query == <<>>

_clean_remaining_query(remaining) ==
    LET cleaned1 == Strip(CollapseSpaces(remaining, 1))
        cleaned2 == DropStandaloneQuotes(cleaned1, 1)
        cleaned3 == Strip(CollapseSpaces(cleaned2, 1))
    IN  Strip(cleaned3 \o <<" ">> \o forced_query)

EmptyTokens == [included |-> <<>>, excluded |-> <<>>, query |-> <<>>]

\* target[field_name].extend(values), the key created when missing
ExtendField(dict, f, values) == SetField(dict, f, Values(dict, f) \o values)

\* faulty variant: the loop ignores the leading '-' and fills included only
RECURSIVE ParseLoop_AllIncluded(_, _, _, _)
ParseLoop_AllIncluded(matches, k, tokens, remaining_query) ==
    IF k > Len(matches)
    THEN [tokens EXCEPT !.query = _clean_remaining_query(remaining_query)]
    ELSE ParseLoop_AllIncluded(matches, k + 1,
             [tokens EXCEPT !.included = ExtendField(tokens.included, matches[k].group2,
                                                     _parse_field_value(matches[k].group3))],
             ReplaceFirst(remaining_query, matches[k].group0, <<" ">>))

\* the loop of parse over the matches: tokens and the remaining query after match k
RECURSIVE ParseLoop(_, _, _, _)
ParseLoop(matches, k, tokens, remaining_query) ==
    IF k > Len(matches)
    THEN [tokens EXCEPT !.query = _clean_remaining_query(remaining_query)]
    ELSE LET m      == matches[k]
             values == _parse_field_value(m.group3)
             next   == IF m.group1
                       THEN [tokens EXCEPT
                               !.excluded = ExtendField(tokens.excluded, m.group2, values)]
                       ELSE [tokens EXCEPT
                               !.included = ExtendField(tokens.included, m.group2, values)]
         IN  ParseLoop(matches, k + 1, next,
                       ReplaceFirst(remaining_query, m.group0, <<" ">>))

\* SearchParser.parse
parse(query_string) ==
    IF query_string = <<>> THEN EmptyTokens
    ELSE ParseLoop(FindIter(query_string, 1), 1, EmptyTokens, Strip(query_string))

----------------------------------------------------------------------------
(* Canonical rebuild *)

\* value.strip("\"'").strip()
_normalize_value(value) == Strip(StripChars(value, {QUOTE, "'"}))

_needs_quoting(value) ==
    \/ InSeq(" ", value)
    \/ \E i \in DOMAIN value : value[i] \in {"@", "#", "!", ",", ":"}
    \/ value # Strip(value)

_format_value_for_query(value) ==
    LET normalized == _normalize_value(value)
    IN  IF _needs_quoting(normalized)
        THEN <<QUOTE>> \o normalized \o <<QUOTE>>
        ELSE normalized

_format_grouped_values(values) ==
    Join([i \in DOMAIN values |-> _format_value_for_query(values[i])], <<",">>)

\* the parts of one dict, a key with an empty list skipped
RECURSIVE FieldParts(_, _)
FieldParts(dict, prefix) ==
    IF dict = <<>> THEN <<>>
    ELSE IF Head(dict).values = <<>> THEN FieldParts(Tail(dict), prefix)
    ELSE <<prefix \o Head(dict).field \o <<":">> \o _format_grouped_values(Head(dict).values)>>
         \o FieldParts(Tail(dict), prefix)

_rebuild_query_string(tokens, free_text) ==
    Join(FieldParts(tokens.included, <<>>)
           \o FieldParts(tokens.excluded, <<"-">>)
           \o (IF Strip(free_text) # <<>> THEN <<Strip(free_text)>> ELSE <<>>),
         <<" ">>)

----------------------------------------------------------------------------
(* Toggle engine *)

FilterCategory ==
    {"status", "priority", "due", "energy", "relationship", "area", "context", "project"}

FilterStrategy == {"normal", "exclusive", "invert", "replace"}


\* faulty variant: the status category still mapped to the EXCLUSIVE strategy
StrategyMap_StatusExclusive ==
    [c \in FilterCategory |->
        CASE c \in {"status", "priority", "due", "energy", "project"} -> "exclusive"
          [] c \in {"relationship", "context"} -> "normal"
          [] c = "area" -> "invert"]

FILTER_STRATEGY_MAP ==
    [c \in FilterCategory |->
        CASE c = "status"       -> "replace"
          [] c = "priority"     -> "exclusive"
          [] c = "due"          -> "exclusive"
          [] c = "energy"       -> "exclusive"
          [] c = "relationship" -> "normal"
          [] c = "area"         -> "invert"
          [] c = "context"      -> "normal"
          [] c = "project"      -> "exclusive"]

\* SearchParser._parse_filter_query: the (field, value) pairs of a filter query
_parse_filter_query(query) ==
    LET matches == FindIter(query, 1)
    IN  [i \in DOMAIN matches |->
            [field |-> matches[i].group2,
             value |-> Lower(StripChars(matches[i].group3, {QUOTE}))]]


\* faulty variant: removing a value drops the whole field
RemoveFrom_DropsField(collection, field, value) ==
    IF HasField(collection, field) /\ InSeq(value, Values(collection, field))
    THEN DelField(collection, field)
    ELSE collection

\* the body of the loop of _remove_filter_value for one collection
RemoveFrom(collection, field, value) ==
    IF HasField(collection, field) /\ InSeq(value, Values(collection, field))
    THEN LET rest == RemoveFirst(Values(collection, field), value)
         IN  IF rest = <<>> THEN DelField(collection, field)
             ELSE SetField(collection, field, rest)
    ELSE collection

_remove_filter_value(tokens, field, value) ==
    [tokens EXCEPT !.included = RemoveFrom(tokens.included, field, value),
                   !.excluded = RemoveFrom(tokens.excluded, field, value)]


\* faulty variant: the new value is put in front of the values already there
AddValue_InFront(collection, field, value) ==
    IF InSeq(value, Values(collection, field)) THEN collection
    ELSE SetField(collection, field, <<value>> \o Values(collection, field))

_add_filter_value(collection, field, value) ==
    LET created == IF HasField(collection, field) THEN collection
                   ELSE SetField(collection, field, <<>>)
    IN  IF InSeq(value, Values(created, field)) THEN created
        ELSE SetField(created, field, Append(Values(created, field), value))


\* faulty variant: the inactive branch adds the value without deleting the field first
Exclusive_KeepsOthers(tokens, field, value, is_active) ==
    IF is_active
    THEN _remove_filter_value(tokens, field, value)
    ELSE [tokens EXCEPT !.included = _add_filter_value(tokens.included, field, value)]

_apply_exclusive_filter_strategy(tokens, field, value, is_active) ==
    IF is_active
    THEN _remove_filter_value(tokens, field, value)
    ELSE [tokens EXCEPT
            !.included = _add_filter_value(DelField(tokens.included, field), field, value),
            !.excluded = DelField(tokens.excluded, field)]

_apply_normal_filter_strategy(tokens, field, value, is_active, is_inversed) ==
    IF is_active
    THEN _remove_filter_value(tokens, field, value)
    ELSE [tokens EXCEPT !.included = _add_filter_value(tokens.included, field, value)]

\* faulty variant: inverting adds to excluded without removing from included
_apply_invert_filter_strategy_KeepsIncluded(tokens, field, value, is_active, is_inversed) ==
    IF ~is_active
    THEN [tokens EXCEPT !.included = _add_filter_value(tokens.included, field, value)]
    ELSE IF is_active /\ ~is_inversed
    THEN [tokens EXCEPT !.excluded = _add_filter_value(tokens.excluded, field, value)]
    ELSE _remove_filter_value(tokens, field, value)

_apply_invert_filter_strategy(tokens, field, value, is_active, is_inversed) ==
    IF ~is_active
    THEN [tokens EXCEPT !.included = _add_filter_value(tokens.included, field, value)]
    ELSE IF is_active /\ ~is_inversed
    THEN LET removed == _remove_filter_value(tokens, field, value)
         IN  [removed EXCEPT !.excluded = _add_filter_value(removed.excluded, field, value)]
    ELSE _remove_filter_value(tokens, field, value)


\* faulty variant: the REPLACE branch without the two assignments that clear the dicts
ApplyReplace_NoClear(tokens, field, value, is_active, is_inversed) ==
    _apply_invert_filter_strategy(tokens, field, value, is_active, is_inversed)

\* the REPLACE branch of generate_future_query
ApplyReplace(tokens, field, value, is_active, is_inversed) ==
    LET only    == <<[field |-> field, values |-> <<value>>]>>
        cleared == IF is_inversed
                   THEN [tokens EXCEPT !.included = <<>>, !.excluded = only]
                   ELSE [tokens EXCEPT !.included = only, !.excluded = <<>>]
    IN  _apply_invert_filter_strategy(cleared, field, value, is_active, is_inversed)


\* faulty variant: the lookup misses the category and falls back to the default NORMAL
StrategyOf_DefaultNormal(target_filter, strategy) ==
    IF strategy = "None" THEN "normal" ELSE strategy

\* the strategy generate_future_query dispatches on: the argument, or the category's
\* entry of FILTER_STRATEGY_MAP when the argument is None
StrategyOf(target_filter, strategy) ==
    IF strategy = "None" THEN FILTER_STRATEGY_MAP[target_filter.category] ELSE strategy

\* the strategy branch of generate_future_query at work on the tokens it parsed
ApplyStrategy(tokens, target_filter, current_state, strategy) ==
    LET part   == _parse_filter_query(target_filter.filter_query)[1]
        chosen == StrategyOf(target_filter, strategy)
    IN  CASE chosen = "exclusive" ->
               _apply_exclusive_filter_strategy(tokens, part.field, part.value,
                                                current_state.active)
          [] chosen = "invert" ->
               _apply_invert_filter_strategy(tokens, part.field, part.value,
                                             current_state.active, current_state.inversed)
          [] chosen = "replace" ->
               ApplyReplace(tokens, part.field, part.value,
                            current_state.active, current_state.inversed)
          [] OTHER ->
               _apply_normal_filter_strategy(tokens, part.field, part.value,
                                             current_state.active, current_state.inversed)

\* the tokens generate_future_query holds when it rebuilds the query string
FutureTokens(current_query, target_filter, current_state, strategy) ==
    ApplyStrategy(parse(current_query), target_filter, current_state, strategy)

\* faulty variant: an invalid filter returns the query rebuilt from its tokens
generate_future_query_Rebuilds(current_query, target_filter, current_state, strategy) ==
    IF _parse_filter_query(target_filter.filter_query) = <<>>
    THEN _rebuild_query_string(parse(current_query), parse(current_query).query)
    ELSE LET tokens == FutureTokens(current_query, target_filter, current_state, strategy)
         IN  _rebuild_query_string(tokens, tokens.query)

\* SearchParser.generate_future_query
generate_future_query(current_query, target_filter, current_state, strategy) ==
    IF _parse_filter_query(target_filter.filter_query) = <<>>
    THEN current_query
    ELSE LET tokens == FutureTokens(current_query, target_filter, current_state, strategy)
         IN  _rebuild_query_string(tokens, tokens.query)

\* SearchParser._matches_filter_value
_matches_filter_value(search_value, filter_value) ==
    _normalize_value(search_value) = _normalize_value(filter_value)

\* the active / inversed state apply_tokens_to_filters computes for one filter
FilterState(tokens, filter_option) ==
    LET parts == _parse_filter_query(filter_option.filter_query)
        inInc(p) == \E i \in DOMAIN Values(tokens.included, p.field) :
                        _matches_filter_value(Values(tokens.included, p.field)[i], p.value)
        inExc(p) == \E i \in DOMAIN Values(tokens.excluded, p.field) :
                        _matches_filter_value(Values(tokens.excluded, p.field)[i], p.value)
        hit(p)   == inInc(p) \/ inExc(p)
    IN  IF \E k \in DOMAIN parts : hit(parts[k])
        THEN LET k == CHOOSE j \in DOMAIN parts :
                          hit(parts[j]) /\ \A h \in 1..(j - 1) : ~hit(parts[h])
             IN  [active |-> TRUE, inversed |-> inExc(parts[k])]
        ELSE [active |-> FALSE, inversed |-> FALSE]

----------------------------------------------------------------------------
(* The filters and the queries of the model *)

\* SearchFilter.get_all_filters of a user with one area named Work: static entries
\* of the status, priority, due and relationship categories and the area's entry
\* (label, icon and color play no part in the toggle engine)
Catalog ==
    {[filter_query |-> <<"i","n",":","i","n","b","o","x">>,
      category |-> "status"],
     [filter_query |-> <<"i","n",":","n","e","x","t">>,
      category |-> "status"],
     [filter_query |-> <<"p","r","i","o","r","i","t","y",":","h","i","g","h">>,
      category |-> "priority"],
     [filter_query |-> <<"h","a","s",":","d","u","e">>,
      category |-> "due"],
     [filter_query |-> <<"h","a","s",":","p","r","o","j","e","c","t">>,
      category |-> "relationship"],
     [filter_query |-> <<"h","a","s",":","c","o","n","t","e","x","t">>,
      category |-> "relationship"],
     [filter_query |-> <<"a","r","e","a",":","\"","W","o","r","k","\"">>,
      category |-> "area"]}

\* filter options whose filter_query holds no field:value pair: the one of
\* test_generate_future_query_invalid_filter and a field with nothing after the colon
InvalidFilters ==
    {[filter_query |-> <<"i","n","v","a","l","i","d","_","f","o","r","m","a","t">>,
      category |-> "status"],
     [filter_query |-> <<"a","r","e","a",":">>,
      category |-> "area"]}

\* the filter options generate_future_query is called with
Filters == Catalog \cup InvalidFilters

\* the words a user types into the search box
Words ==
    {<<"i","n",":","i","n","b","o","x">>,
     <<"p","r","i","o","r","i","t","y",":","h","i","g","h">>,
     <<"p","r","i","o","r","i","t","y",":","l","o","w">>,
     <<"h","a","s",":","p","r","o","j","e","c","t">>,
     <<"a","r","e","a",":","\"","W","o","r","k","\"">>,
     <<"-","a","r","e","a",":","w","o","r","k">>,
     <<"t","a","g","s",":","\"","\"">>,
     <<"s","e","a","r","c","h">>}

\* query strings of the test suite
InNext == <<"i","n",":","n","e","x","t">>
HasProject == <<"h","a","s",":","p","r","o","j","e","c","t">>
HasContext == <<"h","a","s",":","c","o","n","t","e","x","t">>
HasProjectContext == <<"h","a","s",":","p","r","o","j","e","c","t",",","c","o","n","t","e","x","t">>
ComplexQuery == <<"i","n",":","i","n","b","o","x"," ","p","r","i","o","r","i","t","y",":","h","i","g","h"," ","h","a","s",":","p","r","o","j","e","c","t"," ","a","r","e","a",":","\"","W","o","r","k","\""," ","s","e","a","r","c","h"," ","t","e","r","m","s">>
ComplexKept == <<"p","r","i","o","r","i","t","y",":","h","i","g","h"," ","h","a","s",":","p","r","o","j","e","c","t"," ","a","r","e","a",":","W","o","r","k"," ","i","n",":","n","e","x","t"," ","s","e","a","r","c","h"," ","t","e","r","m","s">>
ComplexReplaced == <<"i","n",":","n","e","x","t"," ","s","e","a","r","c","h"," ","t","e","r","m","s">>

\* queries of the test suite: test_generate_future_query_complex_scenario and
\* test_exclusive_filter_strategy_active_to_inactive
\* free text, an included value with a space and an excluded field, in that order
ReorderQuery == <<"s","e","a","r","c","h"," ","t","a","g","s",":","\"","m","y"," ","g","o","d","\""," ","-","i","n",":","i","n","b","o","x">>

\* a quoted value with a tab inside
TabQuery == <<"t","a","g","s",":","\"","a","\t","b","\"">>

ExampleQueries == {ComplexQuery, InNext, ReorderQuery, TabQuery}

MaxWords == 2

MaxStartWords == 1

MaxClicks == 3

\* the queries of at most n words, the words separated by one space
RECURSIVE QueriesOf(_)
QueriesOf(n) ==
    IF n = 0 THEN {<<>>}
    ELSE QueriesOf(n - 1)
         \cup {IF q = <<>> THEN w ELSE q \o <<" ">> \o w : q \in QueriesOf(n - 1), w \in Words}

Queries == QueriesOf(MaxWords) \cup ExampleQueries

StartQueries == QueriesOf(MaxStartWords) \cup ExampleQueries

\* the values of current_state: inactive, active (included), active and inversed (excluded)
States ==
    {[active |-> FALSE, inversed |-> FALSE],
     [active |-> TRUE,  inversed |-> FALSE],
     [active |-> TRUE,  inversed |-> TRUE]}

NoFilter == [filter_query |-> <<>>, category |-> "status"]

NoCall ==
    [op |-> "none", query |-> <<>>, filter |-> NoFilter,
     state |-> [active |-> FALSE, inversed |-> FALSE], strategy |-> "None",
     tokens |-> EmptyTokens, result |-> <<>>]

NoTrail == [chip |-> NoFilter, queries |-> <<>>]

\* the record of one call of generate_future_query
Call(op, q, F, st, strategy) ==
    [op |-> op, query |-> q, filter |-> F, state |-> st, strategy |-> strategy,
     tokens |-> IF _parse_filter_query(F.filter_query) = <<>> THEN parse(q)
                ELSE FutureTokens(q, F, st, strategy),
     result |-> generate_future_query(q, F, st, strategy)]

\* the threads that call the parser and the filter catalogue
MaxThreads == 2

Threads == 1..MaxThreads

\* a thread that runs no call
IdleFrame ==
    [pc |-> "idle", op |-> "none", query |-> <<>>, filter |-> NoFilter,
     state |-> [active |-> FALSE, inversed |-> FALSE],
     tokens |-> 0, outer |-> 0, k |-> 0, result |-> <<>>]

\* no time: None
NoTime == [sec |-> 0, micro |-> 0]

\* no row of the log
NoLog ==
    [item |-> "none", reminded_at |-> NoTime, nb_retry |-> 0, active |-> FALSE,
     error |-> "None"]

\* an item as Item.objects.create(title=...) leaves it: in the inbox, not completed
NewItem ==
    [status |-> "inbox", is_completed |-> FALSE, completed_at |-> "None",
     last_reviewed |-> "None", waiting_for_person |-> "",
     date_requested |-> "None", follow_up_date |-> <<>>, remind_at |-> NoTime]

\* no transition called yet
NoTransition == [name |-> "none", source |-> "none", person |-> "", days |-> <<>>]

\* no reminder processed yet
NoReminder ==
    [log |-> 0, reminded_at |-> NoTime, created |-> FALSE, attempted |-> FALSE,
     failed |-> FALSE, before |-> NoLog, count |-> 0]

\* what the search box leaves alone
rest == <<threadVars, itemVars, reminderVars>>

\* no thread runs a call
ThreadsIdle ==
    /\ heap = <<>>
    /\ frames = [t \in Threads |-> IdleFrame]

\* nothing but the search box is in use
NothingElse ==
    /\ ThreadsIdle
    /\ item = NewItem
    /\ fired = NoTransition
    /\ logs = <<>>
    /\ reminded = NoReminder

----------------------------------------------------------------------------
(* State machine *)

Init ==
    /\ search_query \in Queries
    /\ last = NoCall
    /\ clicks = 0
    /\ trail = NoTrail
    /\ NothingElse

\* a caller invokes generate_future_query on the typed query with a state and a
\* strategy of its choice, as the test suite does
Generate(F, st, strategy) ==
    /\ last.op = "none"
    /\ last' = Call("generate", search_query, F, st, strategy)
    /\ UNCHANGED <<search_query, clicks, trail>>
    /\ UNCHANGED rest

Next ==
    \E F \in Filters, st \in States, strategy \in FilterStrategy \cup {"None"} :
        Generate(F, st, strategy)

Spec == Init /\ [][Next]_vars

InitUI ==
    /\ search_query \in StartQueries
    /\ last = NoCall
    /\ clicks = 0
    /\ trail = NoTrail
    /\ NothingElse

\* the view renders the chips with get_filters_with_state(search_query); the user
\* follows the next_query of one chip, which becomes the search query
Click(F) ==
    /\ clicks < MaxClicks
    /\ \E tokens \in {parse(search_query)} :
       \E st \in {FilterState(tokens, F)} :
       \E call \in {Call("click", search_query, F, st, "None")} :
           /\ last' = call
           /\ search_query' = call.result
           /\ trail' = IF trail.chip = F
                       THEN [trail EXCEPT !.queries = Append(@, call.result)]
                       ELSE [chip |-> F, queries |-> <<search_query, call.result>>]
    /\ clicks' = clicks + 1
    /\ UNCHANGED rest

NextUI == \E F \in Catalog : Click(F)

SpecUI == InitUI /\ [][NextUI]_vars

----------------------------------------------------------------------------
(* The chips of a user clicked one after the other, from the empty query *)

\* SearchFilter.get_all_filters of a user with the areas Work and My Area, the
\* contexts home and my place and the project 12: static entries of every category
\* and the entries built from the user's areas, contexts and projects
UserCatalog ==
    {[filter_query |-> <<"i","n",":","i","n","b","o","x">>,
      category |-> "status"],
     [filter_query |-> <<"i","n",":","n","e","x","t">>,
      category |-> "status"],
     [filter_query |-> <<"p","r","i","o","r","i","t","y",":","l","o","w">>,
      category |-> "priority"],
     [filter_query |-> <<"p","r","i","o","r","i","t","y",":","h","i","g","h">>,
      category |-> "priority"],
     [filter_query |-> <<"h","a","s",":","d","u","e">>,
      category |-> "due"],
     [filter_query |-> <<"i","s",":","o","v","e","r","d","u","e">>,
      category |-> "due"],
     [filter_query |-> <<"i","s",":","d","u","e">>,
      category |-> "due"],
     [filter_query |-> <<"e","n","e","r","g","y",":","l","o","w">>,
      category |-> "energy"],
     [filter_query |-> <<"h","a","s",":","p","r","o","j","e","c","t">>,
      category |-> "relationship"],
     [filter_query |-> <<"a","r","e","a",":","\"","W","o","r","k","\"">>,
      category |-> "area"],
     [filter_query |-> <<"a","r","e","a",":","\"","M","y"," ","A","r","e","a","\"">>,
      category |-> "area"],
     [filter_query |-> <<"c","o","n","t","e","x","t",":","\"","h","o","m","e","\"">>,
      category |-> "context"],
     [filter_query |-> <<"c","o","n","t","e","x","t",":","\"","m","y"," ","p","l","a","c","e","\"">>,
      category |-> "context"],
     [filter_query |-> <<"p","r","o","j","e","c","t",":","1","2">>,
      category |-> "project"]}

InitChips ==
    /\ search_query = <<>>
    /\ last = NoCall
    /\ clicks = 0
    /\ trail = NoTrail
    /\ NothingElse

NextChips == \E F \in UserCatalog : Click(F)

SpecChips == InitChips /\ [][NextChips]_vars

----------------------------------------------------------------------------
(* The parser on its own: parse, then the rebuild of what was parsed *)

\* the words of the parser's queries: the tokens of the tests of test_search_parser.py
\* and tokens with a stray quote, an empty comma piece, a quote inside a bare value
ParseWords ==
    {<<"i","n",":","i","n","b","o","x">>,
     <<"-","i","n",":","i","n","b","o","x">>,
     <<"t","a","g","s",":","\"","t","r","a","i","n","\"",",","\"","m","y"," ","g","o","d","\"">>,
     <<"i","s",":","o","v","e","r","d","u","e">>,
     <<"p","r","i","o","r","i","t","y",":","-","l","o","w">>,
     <<"c","o","u","c","o","u">>,
     <<"\"">>,
     <<"x",":","\"">>,
     <<"i","n",":","a",",",",","b">>,
     <<"x",":","a","\"","b","\"">>,
     <<"x",":","\""," ","'","a","\"">>}

\* parse('tags:"train","my god" is:overdue priority:-low coucou') of the test suite
ParserExample == <<"t","a","g","s",":","\"","t","r","a","i","n","\"",",","\"","m","y"," ","g","o","d","\""," ","i","s",":","o","v","e","r","d","u","e"," ","p","r","i","o","r","i","t","y",":","-","l","o","w"," ","c","o","u","c","o","u">>

MaxParseWords == 2

MaxRebuilds == 2

RECURSIVE ParseQueriesOf(_)
ParseQueriesOf(n) ==
    IF n = 0 THEN {<<>>}
    ELSE ParseQueriesOf(n - 1)
         \cup {q \o <<" ">> \o w : q \in ParseQueriesOf(n - 1) \ {<<>>}, w \in ParseWords}
         \cup ParseWords

ParseQueries == ParseQueriesOf(MaxParseWords) \cup {ParserExample}

InitParse ==
    /\ search_query \in ParseQueries
    /\ last = NoCall
    /\ clicks = 0
    /\ trail = NoTrail
    /\ NothingElse

\* SearchParser.parse on the search query
Parse ==
    /\ last.op = "none"
    /\ last' = [NoCall EXCEPT !.op = "parse", !.query = search_query,
                              !.tokens = parse(search_query)]
    /\ UNCHANGED <<search_query, clicks, trail>>
    /\ UNCHANGED rest

\* SearchParser._rebuild_query_string on the tokens just parsed: the rebuilt query
\* becomes the search query
Rebuild ==
    /\ last.op = "parse"
    /\ clicks < MaxRebuilds
    /\ \E rebuilt \in {_rebuild_query_string(last.tokens, last.tokens.query)} :
          /\ search_query' = rebuilt
          /\ trail' = [chip |-> NoFilter,
                       queries |-> (IF trail.queries = <<>> THEN <<last.query>>
                                    ELSE trail.queries) \o <<rebuilt>>]
    /\ last' = NoCall
    /\ clicks' = clicks + 1
    /\ UNCHANGED rest

NextParse == Parse \/ Rebuild

SpecParse == InitParse /\ [][NextParse]_vars

\* parse has been called
Parsed == last.op = "parse"

----------------------------------------------------------------------------
(* apply_search: the parsed query turned into Q objects and applied to a queryset *)

\* the texts of an item: title, description, waiting_for_person
ItemTexts ==
    {[title |-> <<"S","e","a","r","c","h"," ","m","e">>, description |-> <<>>, waiting_for_person |-> <<>>],
     [title |-> <<"M","a","i","l">>, description |-> <<"s","o","m","e"," ","r","e","s","e","a","r","c","h">>, waiting_for_person |-> <<>>],
     [title |-> <<"M","a","i","l">>, description |-> <<>>, waiting_for_person |-> <<"s","e","a","r","c","h">>],
     [title |-> <<"M","a","i","l">>, description |-> <<>>, waiting_for_person |-> <<>>]}

\* the items of the database: status of GTDStatus, priority of Priority, energy of
\* GTDEnergy or NULL, the names of the tags, and the three text columns the free
\* text is searched in
Items ==
    {[status |-> st, priority |-> pr, energy |-> en, tags |-> tg, title |-> tx.title,
      description |-> tx.description, waiting_for_person |-> tx.waiting_for_person] :
        st \in {"inbox", "next_action"}, pr \in {1, 3}, en \in {"low", "high", "NULL"},
        tg \in {{}, {<<"h","o","m","e">>}}, tx \in ItemTexts}

\* the querysets apply_search is given: every item, the items of one user's inbox
Collections == {Items, {i \in Items : i.status = "inbox"}}

\* a Q object by the items it selects; Q() has no children and is falsy
EmptyQ == [children |-> FALSE, sat |-> {}]

\* Q(condition)
Q(selected) == [children |-> TRUE, sat |-> selected]

\* a | b: an empty operand returns the other
QOr(a, b) ==
    IF ~a.children THEN b ELSE IF ~b.children THEN a ELSE Q(a.sat \cup b.sat)

\* faulty variant: the field filters are OR-combined
QAnd_Unites(a, b) ==
    IF ~a.children THEN b ELSE IF ~b.children THEN a ELSE Q(a.sat \cup b.sat)

\* a & b: an empty operand returns the other
QAnd(a, b) ==
    IF ~a.children THEN b ELSE IF ~b.children THEN a ELSE Q(a.sat \cap b.sat)

\* ~a
QNot(a) == Q(Items \ a.sat)

\* status_map of _build_field_filter
status_map ==
    {<<<<"i","n","b","o","x">>, "inbox">>,
     <<<<"n","e","x","t">>, "next_action">>,
     <<<<"a","c","t","i","o","n">>, "next_action">>,
     <<<<"w","a","i","t","i","n","g">>, "waiting_for">>,
     <<<<"s","o","m","e","d","a","y">>, "someday_maybe">>,
     <<<<"m","a","y","b","e">>, "someday_maybe">>,
     <<<<"r","e","f","e","r","e","n","c","e">>, "reference">>,
     <<<<"p","r","o","j","e","c","t">>, "project">>,
     <<<<"c","o","m","p","l","e","t","e","d">>, "completed">>,
     <<<<"c","a","n","c","e","l","l","e","d">>, "cancelled">>,
     <<<<"c","a","n","c","e","l","e","d">>, "cancelled">>}

\* priority_map of _build_field_filter, the values those of Priority
priority_map ==
    {<<<<"l","o","w">>, 1>>, <<<<"n","o","r","m","a","l">>, 2>>, <<<<"h","i","g","h">>, 3>>, <<<<"u","r","g","e","n","t">>, 4>>}

\* energy_map of _build_field_filter; "normal" is mapped to None
energy_map ==
    {<<<<"l","o","w">>, "low">>, <<<<"n","o","r","m","a","l">>, "NULL">>, <<<<"h","i","g","h">>, "high">>,
     <<<<"m","e","d","i","u","m">>, "medium">>}

\* key in map
InMap(map, key) == \E e \in map : e[1] = key

\* map[key]
Lookup(map, key) == (CHOOSE e \in map : e[1] = key)[2]

\* the field names _build_field_filter has a branch for
KnownFields ==
    {<<"i","n">>,
     <<"i","s">>,
     <<"h","a","s">>,
     <<"p","r","i","o","r","i","t","y">>,
     <<"i","d">>,
     <<"e","n","e","r","g","y">>,
     <<"d","u","e">>,
     <<"p","r","o","j","e","c","t">>,
     <<"t","a","g">>,
     <<"p","a","r","e","n","t">>,
     <<"c","o","n","t","e","x","t">>,
     <<"a","r","e","a">>,
     <<"w","a","i","t","i","n","g">>,
     <<"t","a","g","s">>}

\* what one value adds to field_q, the value lower-cased and stripped: the branches
\* in, priority, energy and tag (the queries below use no other known field); a
\* field name without a branch adds nothing
ValueQ(field_name, value) ==
    CASE field_name = <<"i","n">> ->
           IF InMap(status_map, value)
           THEN Q({i \in Items : i.status = Lookup(status_map, value)})
           ELSE EmptyQ
      [] field_name = <<"p","r","i","o","r","i","t","y">> ->
           IF InMap(priority_map, value)
           THEN Q({i \in Items : i.priority = Lookup(priority_map, value)})
           ELSE IF value # <<>> /\ Head(value) = "-" /\ InMap(priority_map, Tail(value))
           THEN QNot(Q({i \in Items : i.priority = Lookup(priority_map, Tail(value))}))
           ELSE EmptyQ
      [] field_name = <<"e","n","e","r","g","y">> ->
           IF InMap(energy_map, value)
           THEN Q({i \in Items : i.energy = Lookup(energy_map, value)})
           ELSE IF value # <<>> /\ Head(value) = "-" /\ InMap(energy_map, Tail(value))
           THEN QNot(Q({i \in Items : i.energy = Lookup(energy_map, Tail(value))}))
           ELSE EmptyQ
      [] field_name = <<"t","a","g">> ->
           IF value # <<>> /\ Head(value) = "-"
           THEN QOr(Q({i \in Items : value \in i.tags}),
                    QNot(Q({i \in Items : Tail(value) \in i.tags})))
           ELSE Q({i \in Items : value \in i.tags})
      [] field_name \notin KnownFields -> EmptyQ

\* _build_field_filter: the loop over the values, field_q |= ... for each
RECURSIVE BuildLoop(_, _, _, _)
BuildLoop(field_name, values, k, field_q) ==
    IF k > Len(values) THEN field_q
    ELSE BuildLoop(field_name, values, k + 1,
                   QOr(field_q, ValueQ(field_name, Strip(Lower(values[k])))))

\* faulty variant: a field without a recognised value selects nothing
_build_field_filter_NeverEmpty(field_name, values) ==
    Q(BuildLoop(field_name, values, 1, EmptyQ).sat)

_build_field_filter(field_name, values) == BuildLoop(field_name, values, 1, EmptyQ)

\* the loop of apply_search over tokens.included: combined_filter, None shown as Q()
RECURSIVE IncludedLoop(_, _, _)
IncludedLoop(dict, k, combined_filter) ==
    IF k > Len(dict) THEN combined_filter
    ELSE IncludedLoop(dict, k + 1,
                      QAnd(combined_filter,
                           _build_field_filter(dict[k].field, dict[k].values)))

\* the loop of apply_search over tokens.excluded: combined_exclude
RECURSIVE ExcludedLoop(_, _, _)
ExcludedLoop(dict, k, combined_exclude) ==
    IF k > Len(dict) THEN combined_exclude
    ELSE ExcludedLoop(dict, k + 1,
                      QOr(combined_exclude,
                          _build_field_filter(dict[k].field, dict[k].values)))

\* column__icontains=text
icontains(column, text) == Contains(Lower(column), Lower(text))

\* faulty variant: a blank query selects nothing
apply_search_BlankSelectsNothing(queryset, query) ==
    IF Strip(query) = <<>> THEN {}
    ELSE LET tokens           == parse(query)
             combined_filter  == IncludedLoop(tokens.included, 1, EmptyQ)
             combined_exclude == ExcludedLoop(tokens.excluded, 1, EmptyQ)
             filtered == IF combined_filter.children
                         THEN queryset \cap combined_filter.sat ELSE queryset
             kept     == IF combined_exclude.children
                         THEN filtered \ combined_exclude.sat ELSE filtered
         IN  IF tokens.query # <<>>
             THEN {i \in kept : \/ icontains(i.title, tokens.query)
                                \/ icontains(i.description, tokens.query)
                                \/ icontains(i.waiting_for_person, tokens.query)}
             ELSE kept

\* apply_search
apply_search(queryset, query) ==
    IF Strip(query) = <<>> THEN queryset
    ELSE LET tokens           == parse(query)
             combined_filter  == IncludedLoop(tokens.included, 1, EmptyQ)
             combined_exclude == ExcludedLoop(tokens.excluded, 1, EmptyQ)
             filtered == IF combined_filter.children
                         THEN queryset \cap combined_filter.sat ELSE queryset
             kept     == IF combined_exclude.children
                         THEN filtered \ combined_exclude.sat ELSE filtered
         IN  IF tokens.query # <<>>
             THEN {i \in kept : \/ icontains(i.title, tokens.query)
                                \/ icontains(i.description, tokens.query)
                                \/ icontains(i.waiting_for_person, tokens.query)}
             ELSE kept

\* the words of the searched queries
SearchWords ==
    {<<"i","n",":","i","n","b","o","x">>,
     <<"-","i","n",":","n","e","x","t">>,
     <<"i","n",":","b","o","g","u","s">>,
     <<"p","r","i","o","r","i","t","y",":","h","i","g","h">>,
     <<"p","r","i","o","r","i","t","y",":","-","l","o","w">>,
     <<"-","p","r","i","o","r","i","t","y",":","-","l","o","w">>,
     <<"e","n","e","r","g","y",":","-","h","i","g","h">>,
     <<"-","e","n","e","r","g","y",":","l","o","w">>,
     <<"f","o","o",":","b","a","r">>,
     <<"-","f","o","o",":","b","a","r">>,
     <<"-","i","n",":","b","o","g","u","s">>,
     <<"t","a","g",":","h","o","m","e">>,
     <<"s","e","a","r","c","h">>}

MaxSearchWords == 2

RECURSIVE SearchQueriesOf(_)
SearchQueriesOf(n) ==
    IF n = 0 THEN {<<>>}
    ELSE SearchQueriesOf(n - 1)
         \cup {q \o <<" ">> \o w : q \in SearchQueriesOf(n - 1) \ {<<>>}, w \in SearchWords}
         \cup SearchWords

\* the queries that hold nothing but whitespace
BlankQueries == {<<>>, <<" ">>, <<" ", " ">>, <<"\t", " ">>}

SearchQueries == SearchQueriesOf(MaxSearchWords) \cup BlankQueries

InitSearch ==
    /\ search_query \in SearchQueries
    /\ last = NoCall
    /\ clicks = 0
    /\ trail = NoTrail
    /\ NothingElse

\* apply_search(queryset, search_query)
Search(queryset) ==
    /\ last.op = "none"
    /\ last' = [op |-> "search", query |-> search_query, queryset |-> queryset,
                tokens |-> parse(search_query),
                result |-> apply_search(queryset, search_query)]
    /\ UNCHANGED <<search_query, clicks, trail>>
    /\ UNCHANGED rest

NextSearch == \E queryset \in Collections : Search(queryset)

SpecSearch == InitSearch /\ [][NextSearch]_vars

\* apply_search has been called
Searched == last.op = "search"

----------------------------------------------------------------------------
(* Calls side by side: threads that share one SearchParser and one SearchFilter.
   A call is cut where it reads or writes an object another call could hold: the
   SearchTokens it allocates, fills, changes by the strategy and rebuilds from *)

\* the queries of the calls
ThreadQueries == {<<"i","n",":","i","n","b","o","x"," ","s","e","a","r","c","h">>, <<"-","h","a","s",":","p","r","o","j","e","c","t"," ","i","n",":","n","e","x","t">>}

\* the filters get_filters_with_state goes through, in the order of the categories
ThreadCatalog ==
    <<[filter_query |-> <<"i","n",":","i","n","b","o","x">>, category |-> "status"],
      [filter_query |-> <<"h","a","s",":","p","r","o","j","e","c","t">>, category |-> "relationship"]>>

\* the operations a thread calls
ThreadOps == {"parse", "generate_future_query", "get_filters_with_state"}

\* faulty variant: the parser keeps one SearchTokens object and hands it out again
NewTokens_Cached(objects) == 1

\* tokens = SearchTokens(...): the id of the object a call of parse creates
NewTokens(objects) == Len(objects) + 1

InitThreads ==
    /\ search_query = <<>>
    /\ last = NoCall
    /\ clicks = 0
    /\ trail = NoTrail
    /\ NothingElse

\* thread t starts a call; filter and state are the arguments of
\* generate_future_query and are left at their defaults by the other operations
StartCall(t, op, q, F, st) ==
    /\ frames[t].pc = "idle"
    /\ op = "generate_future_query" \/ (F = ThreadCatalog[1] /\ ~st.active /\ ~st.inversed)
    /\ frames' = [frames EXCEPT ![t] =
                     [IdleFrame EXCEPT !.pc = "alloc", !.op = op, !.query = q,
                                       !.filter = F, !.state = st]]
    /\ UNCHANGED <<heap, searchVars, itemVars, reminderVars>>

\* parse: tokens = SearchTokens(original_query=...)
AllocTokens(t) ==
    /\ frames[t].pc = "alloc"
    /\ \E ref \in {NewTokens(heap)} :
          /\ heap' = IF ref > Len(heap) THEN Append(heap, EmptyTokens)
                     ELSE [heap EXCEPT ![ref] = EmptyTokens]
          /\ frames' = [frames EXCEPT ![t].pc = "fill", ![t].tokens = ref]
    /\ UNCHANGED <<searchVars, itemVars, reminderVars>>

\* parse: the loop over the matches fills the object, the free text is set and the
\* object is returned: to the caller of parse, to generate_future_query, or to
\* get_filters_with_state, which keeps it for apply_tokens_to_filters
FillTokens(t) ==
    /\ frames[t].pc = "fill"
    /\ \E f \in {frames[t]} :
          /\ heap' = IF f.query = <<>> THEN heap
                     ELSE [heap EXCEPT ![f.tokens] =
                             ParseLoop(FindIter(f.query, 1), 1, heap[f.tokens],
                                       Strip(f.query))]
          /\ frames' = [frames EXCEPT ![t] =
                CASE f.op = "parse" -> [f EXCEPT !.pc = "done"]
                  [] f.op = "get_filters_with_state" /\ f.outer = 0 ->
                       [f EXCEPT !.pc = "state", !.outer = f.tokens, !.k = 1]
                  [] OTHER -> [f EXCEPT !.pc = "toggle"]]
    /\ UNCHANGED <<searchVars, itemVars, reminderVars>>

\* apply_tokens_to_filters: the state of the next filter, read from the tokens of
\* the query, before generate_future_query is called for it
ReadState(t) ==
    /\ frames[t].pc = "state"
    /\ \E f \in {frames[t]} :
          frames' = [frames EXCEPT ![t] =
             IF f.k > Len(ThreadCatalog) THEN [f EXCEPT !.pc = "done"]
             ELSE [f EXCEPT !.pc = "alloc", !.filter = ThreadCatalog[f.k],
                            !.state = FilterState(heap[f.outer], ThreadCatalog[f.k])]]
    /\ UNCHANGED <<heap, searchVars, itemVars, reminderVars>>

\* generate_future_query: the strategy changes the tokens just parsed
Toggle(t) ==
    /\ frames[t].pc = "toggle"
    /\ \E f \in {frames[t]} :
          /\ heap' = IF _parse_filter_query(f.filter.filter_query) = <<>> THEN heap
                     ELSE [heap EXCEPT ![f.tokens] =
                             ApplyStrategy(heap[f.tokens], f.filter, f.state, "None")]
          /\ frames' = [frames EXCEPT ![t].pc = "rebuild"]
    /\ UNCHANGED <<searchVars, itemVars, reminderVars>>

\* generate_future_query: the query string is rebuilt from the tokens and returned
RebuildQuery(t) ==
    /\ frames[t].pc = "rebuild"
    /\ \E f \in {frames[t]} :
       \E next_query \in {IF _parse_filter_query(f.filter.filter_query) = <<>>
                           THEN f.query
                           ELSE _rebuild_query_string(heap[f.tokens],
                                                      heap[f.tokens].query)} :
          frames' = [frames EXCEPT ![t] =
             IF f.op = "generate_future_query"
             THEN [f EXCEPT !.pc = "done", !.result = next_query]
             ELSE [f EXCEPT !.pc = "state", !.k = f.k + 1,
                            !.result = Append(f.result,
                                [active |-> f.state.active,
                                 inversed |-> f.state.inversed,
                                 next_query |-> next_query])]]
    /\ UNCHANGED <<heap, searchVars, itemVars, reminderVars>>

NextThreads ==
    \E t \in Threads :
        \/ \E op \in ThreadOps, q \in ThreadQueries, F \in Range(ThreadCatalog),
              st \in States : StartCall(t, op, q, F, st)
        \/ AllocTokens(t)
        \/ FillTokens(t)
        \/ ReadState(t)
        \/ Toggle(t)
        \/ RebuildQuery(t)

SpecThreads == InitThreads /\ [][NextThreads]_vars

----------------------------------------------------------------------------
(* ReminderService._process_reminder: the log of a reminder and its retries.
   A call runs inside transaction.atomic() and is one step *)

\* GTDConfig.MAX_REMINDER_THRESHOLD
MAX_REMINDER_THRESHOLD == 10

\* the seconds a reminder can be due at
MaxSeconds == 2

\* the times of the reminders: a second and the microseconds within it
Times == [sec : 1..MaxSeconds, micro : {0, 500}]

\* ItemReminderLog.objects.create(item=item, reminded_at=reminded_at): the retry
\* count starts at zero and the log is active
NewLog(reminded_at) ==
    [item |-> "item", reminded_at |-> reminded_at, nb_retry |-> 0, active |-> TRUE,
     error |-> "None"]

\* the log test_reminder_email_integration_failure_twice creates beforehand
ExistingLog(reminded_at) ==
    [item |-> "item", reminded_at |-> reminded_at,
     nb_retry |-> MAX_REMINDER_THRESHOLD - 1, active |-> TRUE, error |-> "First error"]

\* the rows filter(item=item, reminded_sec=reminded_at.replace(microsecond=0)) finds
Found(rows, reminded_at) ==
    {n \in DOMAIN rows : rows[n].item = "item" /\ rows[n].reminded_at.sec = reminded_at.sec}

\* .first(): the row of the smallest id
First(found) == CHOOSE n \in found : \A m \in found : n <= m

\* faulty variant: the log is never deactivated
Exhausted_Never(nb_retry) == FALSE

\* log_entry.nb_retry >= GTDConfig.MAX_REMINDER_THRESHOLD
Exhausted(nb_retry) == nb_retry >= MAX_REMINDER_THRESHOLD

\* the log after a failed send
FailedLog(log_entry, created) ==
    LET counted == IF created THEN log_entry
                   ELSE [log_entry EXCEPT !.nb_retry = log_entry.nb_retry + 1]
    IN  [counted EXCEPT !.error = "Exception during email send",
                        !.active = IF Exhausted(counted.nb_retry) THEN FALSE
                                   ELSE counted.active]

\* what _calculate_next_reminder can return: None without a recurrence rule, a later
\* time with one
NextReminders ==
    {NoTime} \cup {tm \in Times : tm.sec > item.remind_at.sec /\ tm.micro = 0}

InitReminders ==
    /\ search_query = <<>>
    /\ last = NoCall
    /\ clicks = 0
    /\ trail = NoTrail
    /\ ThreadsIdle
    /\ fired = NoTransition
    /\ \E tm \in Times :
          /\ item = [NewItem EXCEPT !.status = "next_action", !.remind_at = tm]
          /\ logs \in {<<>>, <<ExistingLog(tm)>>}
    /\ reminded = NoReminder

\* _process_reminder(item, reminded_at); sent says whether send_reminder_email
\* returns or raises
ProcessReminder(reminded_at, sent) ==
    \E found \in {Found(logs, reminded_at)} :
    \E created \in {found = {}} :
    \E rows \in {IF created THEN Append(logs, NewLog(reminded_at)) ELSE logs} :
    \E n \in {IF created THEN Len(logs) + 1 ELSE First(found)} :
    \E call \in {[log |-> n, reminded_at |-> reminded_at, created |-> created,
                   attempted |-> rows[n].active, failed |-> rows[n].active /\ ~sent,
                   before |-> IF created THEN NoLog ELSE logs[n],
                   count |-> Len(logs)]} :
        /\ reminded' = call
        /\ logs' = IF call.failed THEN [rows EXCEPT ![n] = FailedLog(rows[n], created)]
                   ELSE rows
        /\ IF call.attempted /\ sent
           THEN \E next_reminder \in NextReminders :
                    item' = [item EXCEPT !.remind_at = next_reminder]
           ELSE item' = item
        /\ UNCHANGED <<searchVars, threadVars, fired>>

NextReminder ==
    \E reminded_at \in Times, sent \in BOOLEAN : ProcessReminder(reminded_at, sent)

SpecReminders == InitReminders /\ [][NextReminder]_vars

----------------------------------------------------------------------------
(* ItemFlow: the transitions of the status of an item, each followed by the save
   it triggers. Dates are kept as set or None, a follow-up date as the number of
   days from today, <<>> standing for None *)

\* GTDStatus
GTDStatus ==
    {"inbox", "next_action", "waiting_for", "someday_maybe", "reference", "project",
     "completed", "cancelled"}

\* GTDConfig.DEFAULT_FOLLOW_UP_DAYS
DEFAULT_FOLLOW_UP_DAYS == 7

\* the transitions of ItemFlow in the order dir() lists the methods: name, source
\* states, target and the position given by @priority, <<>> when there is none
FlowTransitions ==
    <<[name |-> "activate_as_project", source |-> {"someday_maybe"},
       target |-> "project", position |-> <<>>],
      [name |-> "activate_from_someday_maybe", source |-> {"someday_maybe"},
       target |-> "next_action", position |-> <<>>],
      [name |-> "cancel", source |-> GTDStatus,
       target |-> "cancelled", position |-> <<-100>>],
      [name |-> "complete", source |-> {"next_action", "project"},
       target |-> "completed", position |-> <<>>],
      [name |-> "defer_to_someday_maybe", source |-> {"next_action", "waiting_for"},
       target |-> "someday_maybe", position |-> <<>>],
      [name |-> "delegate", source |-> {"next_action"},
       target |-> "waiting_for", position |-> <<>>],
      [name |-> "process_as_action", source |-> {"inbox"},
       target |-> "next_action", position |-> <<>>],
      [name |-> "process_as_project", source |-> {"inbox"},
       target |-> "project", position |-> <<>>],
      [name |-> "process_as_reference", source |-> {"inbox"},
       target |-> "reference", position |-> <<>>],
      [name |-> "process_as_someday_maybe", source |-> {"inbox"},
       target |-> "someday_maybe", position |-> <<>>],
      [name |-> "receive_response", source |-> {"waiting_for"},
       target |-> "next_action", position |-> <<>>],
      [name |-> "reopen", source |-> {"completed"},
       target |-> "next_action", position |-> <<>>],
      [name |-> "uncancel", source |-> {"cancelled"},
       target |-> "inbox", position |-> <<>>]>>

\* the conditions= of a transition
ConditionsMet(transition, it) ==
    CASE transition.name = "cancel" -> ~(it.status = "cancelled")
      [] transition.name = "reopen" -> it.is_completed
      [] OTHER -> TRUE

\* method.can_proceed(): the status is a source of the transition and its
\* conditions hold
can_proceed(transition, it) ==
    it.status \in transition.source /\ ConditionsMet(transition, it)

\* faulty variant: the negative positions sort before the others
sort_by_priority_NegativesFirst(x) ==
    LET p == IF x.position = <<>> THEN 0 ELSE x.position[1]
    IN  IF p > 0 THEN <<1, -p>> ELSE IF p = 0 THEN <<2, 0>> ELSE <<0, -p>>

\* ItemTransitionsBag.sort_by_priority
sort_by_priority(x) ==
    LET p == IF x.position = <<>> THEN 0 ELSE x.position[1]
    IN  IF p > 0 THEN <<0, -p>> ELSE IF p = 0 THEN <<1, 0>> ELSE <<2, -p>>

\* the order of two keys
KeyLess(a, b) == a[1] < b[1] \/ (a[1] = b[1] /\ a[2] < b[2])

\* sorted(seq, key=sort_by_priority): stable, an element put after those of a
\* key not greater than its own
RECURSIVE Sorted(_)
Sorted(seq) ==
    IF seq = <<>> THEN <<>>
    ELSE LET front == Sorted(SubSeq(seq, 1, Len(seq) - 1))
             x     == seq[Len(seq)]
             keep  == Cardinality({n \in DOMAIN front :
                         ~KeyLess(sort_by_priority(x), sort_by_priority(front[n]))})
         IN  SubSeq(front, 1, keep) \o <<x>> \o SubSeq(front, keep + 1, Len(front))

\* the transitions that can proceed, in the order of dir()
Proceeding(it) ==
    SelectSeq(FlowTransitions, LAMBDA transition : can_proceed(transition, it))

\* ItemFlow.get_available_transitions
get_available_transitions(it) == Sorted(Proceeding(it))

\* Item.save
save(it) ==
    IF it.is_completed /\ it.completed_at = "None"
    THEN [it EXCEPT !.completed_at = "now",
                    !.status = IF it.status \notin {"completed", "cancelled"}
                               THEN "completed" ELSE it.status]
    ELSE IF ~it.is_completed
    THEN [it EXCEPT !.completed_at = "None",
                    !.status = IF it.status = "completed" THEN "next_action"
                               ELSE it.status]
    ELSE it

\* the body of the transition method
Body(name, it, person, follow_up_days) ==
    CASE name \in {"process_as_someday_maybe", "defer_to_someday_maybe"} ->
           [it EXCEPT !.last_reviewed = IF it.last_reviewed = "None" THEN "today"
                                        ELSE it.last_reviewed]
      [] name = "delegate" ->
           [it EXCEPT
              !.waiting_for_person = IF person # "" THEN person ELSE it.waiting_for_person,
              !.date_requested = IF it.date_requested = "None" THEN "today"
                                 ELSE it.date_requested,
              !.follow_up_date =
                  IF it.follow_up_date = <<>>
                  THEN (IF follow_up_days = <<>> \/ follow_up_days = <<0>>
                        THEN <<DEFAULT_FOLLOW_UP_DAYS>> ELSE follow_up_days)
                  ELSE it.follow_up_date]
      [] name = "complete" -> [it EXCEPT !.is_completed = TRUE, !.completed_at = "now"]
      [] name = "reopen" -> [it EXCEPT !.is_completed = FALSE, !.completed_at = "None"]
      [] OTHER -> it

\* the people an item is delegated to and the follow-up days asked for
Persons == {"", "Ann", "Bob"}

FollowUpDays == {<<>>, <<3>>}

InitFlow ==
    /\ search_query = <<>>
    /\ last = NoCall
    /\ clicks = 0
    /\ trail = NoTrail
    /\ NothingElse

\* a transition method of ItemFlow is called: the method runs, the status is set to
\* the target, _on_transition_success saves the item
Transition(transition, person, follow_up_days) ==
    /\ can_proceed(transition, item)
    /\ transition.name = "delegate" \/ (person = "" /\ follow_up_days = <<>>)
    /\ \E done \in {Body(transition.name, item, person, follow_up_days)} :
          item' = save([done EXCEPT !.status = transition.target])
    /\ fired' = [name |-> transition.name, source |-> item.status,
                 person |-> person, days |-> follow_up_days]
    /\ UNCHANGED <<searchVars, threadVars, reminderVars>>

NextFlow ==
    \E transition \in Range(FlowTransitions), person \in Persons,
       follow_up_days \in FollowUpDays :
        Transition(transition, person, follow_up_days)

SpecFlow == InitFlow /\ [][NextFlow]_vars

----------------------------------------------------------------------------
(* Vocabulary of the properties *)

\* a call has been made
Called == last.op # "none"

\* a call has been made with a filter that names a (field, value) pair
Acted == Called /\ _parse_filter_query(last.filter.filter_query) # <<>>

\* the (field, value) pair generate_future_query takes from the target filter
Part == _parse_filter_query(last.filter.filter_query)[1]

\* the strategy the call dispatched on
Chosen == StrategyOf(last.filter, last.strategy)

\* the tokens of the current query, the tokens the call serialised, and the tokens
\* of the query string it returned
Before == parse(last.query)
After == last.tokens
Res == parse(last.result)

FieldsOf(dict) == {dict[i].field : i \in DOMAIN dict}

\* the (field, value) pairs of a dict
PairsOf(dict) ==
    UNION {{<<dict[i].field, dict[i].values[j]>> : j \in DOMAIN dict[i].values} :
             i \in DOMAIN dict}

\* the number of values of a dict
RECURSIVE CountValues(_)
CountValues(dict) ==
    IF dict = <<>> THEN 0 ELSE Len(Head(dict).values) + CountValues(Tail(dict))

\* field:value as written for a value that needs no quotes
Token(field, value) == field \o <<":">> \o value

\* the parts and the free text, joined by single spaces
WithText(parts, text) ==
    Join(parts \o (IF text = <<>> THEN <<>> ELSE <<text>>), <<" ">>)

\* every field but f has the same included and the same excluded values in a and b
SameOtherFields(a, b, f) ==
    \A g \in (FieldsOf(a.included) \cup FieldsOf(a.excluded)
              \cup FieldsOf(b.included) \cup FieldsOf(b.excluded)) \ {f} :
        /\ Values(a.included, g) = Values(b.included, g)
        /\ Values(a.excluded, g) = Values(b.excluded, g)

----------------------------------------------------------------------------
(* Properties *)

HoldsValue(dict, field, value) ==
    \E i \in DOMAIN Values(dict, field) : Lower(Values(dict, field)[i]) = Lower(value)

\* two parsed queries with the same values of every field and the same free text
ContentEqual(a, b) ==
    /\ a.query = b.query
    /\ \A g \in FieldsOf(a.included) \cup FieldsOf(a.excluded)
                  \cup FieldsOf(b.included) \cup FieldsOf(b.excluded) :
          /\ Values(a.included, g) = Values(b.included, g)
          /\ Values(a.excluded, g) = Values(b.excluded, g)

\* the k-th query of the run of clicks on one chip, parsed
TrailTokens(k) == parse(trail.queries[k])

\* where the value of the chip stands in the k-th query of the run
TrailIn(k) ==
    HoldsValue(TrailTokens(k).included,
               _parse_filter_query(trail.chip.filter_query)[1].field,
               _parse_filter_query(trail.chip.filter_query)[1].value)
TrailEx(k) ==
    HoldsValue(TrailTokens(k).excluded,
               _parse_filter_query(trail.chip.filter_query)[1].field,
               _parse_filter_query(trail.chip.filter_query)[1].value)

\* C3: three successive clicks on a chip of the area category, each with the state
\* computed from the current query, starting from a query in which the filter is
\* absent, pass through included only, excluded only and absent, and end on a query
\* content-equal to the first; from the empty query the first click gives area:work
\* and the third the empty string.
C3_InvertCycles ==
    (/\ trail.chip # NoFilter
     /\ FILTER_STRATEGY_MAP[trail.chip.category] = "invert"
     /\ Len(trail.queries) >= 4
     /\ ~TrailIn(1) /\ ~TrailEx(1)) =>
        /\ TrailIn(2) /\ ~TrailEx(2)
        /\ ~TrailIn(3) /\ TrailEx(3)
        /\ ~TrailIn(4) /\ ~TrailEx(4)
        /\ ContentEqual(TrailTokens(4), TrailTokens(1))
        /\ trail.queries[1] = <<>> =>
              /\ trail.queries[2] = <<"a","r","e","a",":","w","o","r","k">>
              /\ trail.queries[4] = <<>>

\* the value the filter query names, as the parser reads it (quotes dropped, case kept)
Named == Head(parse(last.filter.filter_query).included).values[1]

\* C4: an Invert click with state active and not inversed, on a query whose included
\* map holds the value the filter query names, moves that value: the returned query
\* has it in excluded[field] and no longer in included[field] (letter case ignored).
C4_InvertActiveMoves ==
    (/\ Acted /\ Chosen = "invert" /\ last.state.active /\ ~last.state.inversed
     /\ InSeq(Named, Values(Before.included, Part.field))) =>
        /\ \E i \in DOMAIN Values(Res.excluded, Part.field) :
              Lower(Values(Res.excluded, Part.field)[i]) = Lower(Named)
        /\ \A i \in DOMAIN Values(Res.included, Part.field) :
              Lower(Values(Res.included, Part.field)[i]) # Lower(Named)

\* C5: a Normal click on an active filter whose value is present removes the
\* (field, value) pair from included and from excluded, and no Normal click adds a
\* value to the excluded map.
C5_NormalActiveRemoves ==
    (Acted /\ Chosen = "normal") =>
        /\ PairsOf(Res.excluded) \subseteq PairsOf(Before.excluded)
        /\ (/\ last.state.active
            /\ \/ InSeq(Part.value, Values(Before.included, Part.field))
               \/ InSeq(Part.value, Values(Before.excluded, Part.field))) =>
              /\ ~InSeq(Part.value, Values(Res.included, Part.field))
              /\ ~InSeq(Part.value, Values(Res.excluded, Part.field))

IsSuffix(t, s) == Len(t) <= Len(s) /\ SubSeq(s, Len(s) - Len(t) + 1, Len(s)) = t

\* C8: the free text of the returned query is exactly the free text of the current
\* query, and it stands after all filter tokens: the returned query ends with it and
\* what precedes it holds filter tokens only.
C8_FreeTextPreserved ==
    Acted =>
        /\ Res.query = Before.query
        /\ IsSuffix(Before.query, last.result)
        /\ parse(SubSeq(last.result, 1, Len(last.result) - Len(Before.query))).query = <<>>

\* the precondition of C9: an active, not inversed status filter, default strategy
StatusActiveClick ==
    /\ Acted /\ last.filter.category = "status" /\ last.strategy = "None"
    /\ last.state.active /\ ~last.state.inversed

StatusInactiveClick ==
    /\ Acted /\ last.filter.category = "status" /\ last.strategy = "None"
    /\ ~last.state.active

C11_InvalidFilterNoOp ==
    (Called /\ _parse_filter_query(last.filter.filter_query) = <<>>) =>
        last.result = last.query

\* the invalid filter of the test suite on a query a rebuild would rewrite
C11_Witness ==
    /\ Called /\ last.filter \in InvalidFilters
    /\ last.filter.filter_query = <<"i","n","v","a","l","i","d","_","f","o","r","m","a","t">>
    /\ last.strategy = "replace" /\ last.state.active
    /\ _rebuild_query_string(parse(last.query), parse(last.query).query) # last.query
    /\ last.result = last.query

\* the matches of FIELD_PATTERN in the query parse was called with
Matches == FindIter(last.query, 1)

\* the values of the matches of one field, with ('-') or without the leading dash,
\* in encounter order
RECURSIVE ValuesFrom(_, _, _, _)
ValuesFrom(matches, k, field, dashed) ==
    IF k > Len(matches) THEN <<>>
    ELSE (IF matches[k].group2 = field /\ matches[k].group1 = dashed
          THEN _parse_field_value(matches[k].group3) ELSE <<>>)
         \o ValuesFrom(matches, k + 1, field, dashed)

\* the fields of the matches with or without the leading dash
MatchFields(dashed) ==
    {Matches[k].group2 : k \in {j \in DOMAIN Matches : Matches[j].group1 = dashed}}

\* the (field, value) pairs written in the query with or without the leading dash
MatchPairs(dashed) ==
    UNION {{<<f, ValuesFrom(Matches, 1, f, dashed)[i]>> :
              i \in DOMAIN ValuesFrom(Matches, 1, f, dashed)} : f \in MatchFields(dashed)}

\* C12 as stated: after a single parse no (field, value) pair is in both maps.
C12_NoPairInBothMaps ==
    Parsed => PairsOf(last.tokens.included) \cap PairsOf(last.tokens.excluded) = {}

\* C12 as amended: parse puts the values of each match in the map its own leading
\* dash selects and compares nothing across the maps: a (field, value) pair is in
\* both maps exactly when the query writes it both without and with the dash, and in
\* neither more than what the query writes.
C12_PairInBothIffWrittenBothWays ==
    Parsed =>
        /\ PairsOf(last.tokens.included) = MatchPairs(FALSE)
        /\ PairsOf(last.tokens.excluded) = MatchPairs(TRUE)
        /\ \A pair \in MatchPairs(FALSE) \cup MatchPairs(TRUE) :
              (pair \in PairsOf(last.tokens.included)
                 /\ pair \in PairsOf(last.tokens.excluded))
              <=> (pair \in MatchPairs(FALSE) /\ pair \in MatchPairs(TRUE))

\* in:inbox -in:inbox parsed: the pair is in both maps
C12_Witness ==
    /\ Parsed
    /\ <<<<"i","n">>, <<"i","n","b","o","x">>>> \in PairsOf(last.tokens.included)
    /\ <<<<"i","n">>, <<"i","n","b","o","x">>>> \in PairsOf(last.tokens.excluded)

\* C13: parse never creates a field with an empty value list: every key of included
\* and of excluded has at least one value, and the text of a field expression that
\* yields no value stays in the free text.
C13_NoEmptyValueList ==
    Parsed =>
        /\ \A i \in DOMAIN last.tokens.included : last.tokens.included[i].values # <<>>
        /\ \A i \in DOMAIN last.tokens.excluded : last.tokens.excluded[i].values # <<>>
        /\ \A k \in DOMAIN Matches :
              _parse_field_value(Matches[k].group3) = <<>> =>
                 Contains(last.tokens.query, Matches[k].group0)

\* the values of a match as C14 states them: one per quoted segment of a quoted
\* group, one per comma-separated piece of an unquoted value, the value otherwise
StatedValues(value) ==
    IF Len(value) >= 2 /\ Head(value) = QUOTE /\ value[Len(value)] = QUOTE
    THEN QuotedFindAll(value, 1)
    ELSE IF InSeq(",", value)
         THEN StripNonEmpty(SplitComma(value, 1, <<>>))
         ELSE <<value>>

\* the values of a match as the amended C14 states them: the contents of the closed
\* quoted segments of a value that holds a double quote, the non-empty trimmed pieces
\* of a value with a comma, the value otherwise
SegmentsOrPieces(value) ==
    IF InSeq(QUOTE, value) THEN QuotedFindAll(value, 1)
    ELSE IF InSeq(",", value) THEN StripNonEmpty(SplitComma(value, 1, <<>>))
    ELSE <<value>>

\* the values the matches of one field give, dashed or not, in encounter order, each
\* match read by StatedValues (stated) or by SegmentsOrPieces
RECURSIVE ValuesRead(_, _, _, _, _)
ValuesRead(matches, k, field, dashed, stated) ==
    IF k > Len(matches) THEN <<>>
    ELSE (IF matches[k].group2 = field /\ matches[k].group1 = dashed
          THEN (IF stated THEN StatedValues(matches[k].group3)
                ELSE SegmentsOrPieces(matches[k].group3))
          ELSE <<>>)
         \o ValuesRead(matches, k + 1, field, dashed, stated)

\* the tokens parse returns list, for every field of a match, the values ValuesRead
\* gives, in included without the dash and in excluded with it
TokensFollow(stated) ==
    /\ FieldsOf(last.tokens.included) = MatchFields(FALSE)
    /\ FieldsOf(last.tokens.excluded) = MatchFields(TRUE)
    /\ \A f \in MatchFields(FALSE) :
          Values(last.tokens.included, f) = ValuesRead(Matches, 1, f, FALSE, stated)
    /\ \A f \in MatchFields(TRUE) :
          Values(last.tokens.excluded, f) = ValuesRead(Matches, 1, f, TRUE, stated)

\* parse of the example query gives tags [train, my god], is [overdue],
\* priority [-low], nothing excluded
ExampleParsed ==
    /\ last.tokens.included =
         <<[field |-> <<"t","a","g","s">>,
            values |-> <<<<"t","r","a","i","n">>, <<"m","y"," ","g","o","d">>>>],
           [field |-> <<"i","s">>, values |-> <<<<"o","v","e","r","d","u","e">>>>],
           [field |-> <<"p","r","i","o","r","i","t","y">>,
            values |-> <<<<"-","l","o","w">>>>]>>
    /\ last.tokens.excluded = <<>>

Unmatched ==
    [i \in 1..Len(last.query) |->
        IF \E k \in DOMAIN Matches :
              /\ Matches[k].end - Len(Matches[k].group0) < i
              /\ i <= Matches[k].end
        THEN " " ELSE last.query[i]]

\* the words of s: its maximal runs of characters that are not whitespace
RECURSIVE WordsOf(_, _, _)
WordsOf(s, i, cur) ==
    IF i > Len(s) THEN (IF cur = <<>> THEN <<>> ELSE <<cur>>)
    ELSE IF IsSpace(s[i])
         THEN (IF cur = <<>> THEN <<>> ELSE <<cur>>) \o WordsOf(s, i + 1, <<>>)
         ELSE WordsOf(s, i + 1, Append(cur, s[i]))

\* a word that is not a quote character standing alone
NotOrphanQuote(word) == word # <<QUOTE>>

\* C15: the free text parse returns is the query with every matched field token
\* removed, whitespace collapsed, orphan quote characters dropped and the ends
\* trimmed: the unmatched words, in their original order, joined by single spaces.
C15_FreeTextIsUnmatchedWords ==
    Parsed =>
        last.tokens.query
          = Join(SelectSeq(WordsOf(Unmatched, 1, <<>>), NotOrphanQuote), <<" ">>)

\* C16: canonicalization is idempotent: the rebuild of the parse of a rebuilt query has
\* the same included values, the same excluded values and the same free text as the
\* rebuilt query.
C16_CanonicalizationIdempotent ==
    (trail.chip = NoFilter /\ Len(trail.queries) >= 3) =>
        ContentEqual(parse(trail.queries[3]), parse(trail.queries[2]))

\* a value as C17 writes it: in double quotes exactly when it holds whitespace or one
\* of @ # ! , :
StatedFormat(value) ==
    IF \E i \in DOMAIN value : IsSpace(value[i]) \/ value[i] \in {"@", "#", "!", ",", ":"}
    THEN <<QUOTE>> \o value \o <<QUOTE>>
    ELSE value

\* each field of a dict that has values, once, as field:v1,v2,... behind the prefix
RECURSIVE StatedParts(_, _)
StatedParts(dict, prefix) ==
    IF dict = <<>> THEN <<>>
    ELSE (IF Head(dict).values = <<>> THEN <<>>
          ELSE <<prefix \o Head(dict).field \o <<":">>
                   \o Join([i \in DOMAIN Head(dict).values |->
                              StatedFormat(_normalize_value(Head(dict).values[i]))],
                           <<",">>)>>)
         \o StatedParts(Tail(dict), prefix)

\* C17: every query generate_future_query returns for a valid filter is in canonical
\* order: each included field once as field:v1,v2,..., then each excluded field once
\* as -field:v1,..., then the free text, joined by single spaces, a value in double
\* quotes exactly when it holds whitespace or one of @ # ! , :.
C17_CanonicalOrderAndQuoting ==
    Acted =>
        last.result = WithText(StatedParts(After.included, <<>>)
                                 \o StatedParts(After.excluded, <<"-">>),
                               After.query)

\* the value the filter query names is among the values of its field in the dict,
\* surrounding quotes ignored
HoldsNamed(dict) ==
    \E i \in DOMAIN Values(dict, Part.field) :
        _normalize_value(Values(dict, Part.field)[i]) = _normalize_value(Named)

\* C18: get_filters_with_state reports a filter active exactly when the value its
\* filter_query names is among included[field] or excluded[field] of the parsed query
\* (surrounding quotes ignored), inversed exactly when it is among excluded[field],
\* and its next_query is generate_future_query of the query, the filter and that state.
C18_StateFromCurrentQuery ==
    last.op = "click" =>
        /\ last.state.active = (HoldsNamed(Before.included) \/ HoldsNamed(Before.excluded))
        /\ last.state.inversed = HoldsNamed(Before.excluded)
        /\ last.result = generate_future_query(last.query, last.filter, last.state, "None")

----------------------------------------------------------------------------
(* Properties of apply_search *)

\* the item is selected by the predicate of one value of a field
MatchesValue(i, field_name, value) ==
    i \in ValueQ(field_name, Strip(Lower(value))).sat

\* the value has a meaning for the field
Recognised(field_name, value) == ValueQ(field_name, Strip(Lower(value))).children

\* the item matches at least one of the values of the entry
MatchesEntry(i, entry) ==
    \E k \in DOMAIN entry.values : MatchesValue(i, entry.field, entry.values[k])

\* some value of the entry has a meaning
Constrains(entry) ==
    \E k \in DOMAIN entry.values : Recognised(entry.field, entry.values[k])

\* the item holds the text in title, description or delegate person
HasText(i, text) ==
    \/ icontains(i.title, text)
    \/ icontains(i.description, text)
    \/ icontains(i.waiting_for_person, text)

\* the items the statement selects; every included entry counts when every is
\* TRUE, otherwise only those with a recognised value
Selected(every) ==
    {i \in last.queryset :
        /\ \A k \in DOMAIN last.tokens.included :
               (every \/ Constrains(last.tokens.included[k])) => MatchesEntry(i, last.tokens.included[k])
        /\ \A k \in DOMAIN last.tokens.excluded : ~MatchesEntry(i, last.tokens.excluded[k])
        /\ last.tokens.query # <<>> => HasText(i, last.tokens.query)}

ForcedLevel(entry, value) ==
    LET v == Strip(Lower(value))
        m == IF entry.field = <<"p","r","i","o","r","i","t","y">> THEN priority_map ELSE energy_map
    IN  IF /\ entry.field \in {<<"p","r","i","o","r","i","t","y">>, <<"e","n","e","r","g","y">>}
           /\ v # <<>> /\ Head(v) = "-" /\ InMap(m, Tail(v))
        THEN {Lookup(m, Tail(v))} ELSE {}

\* the level of the item in the column of the entry
LevelOf(i, entry) == IF entry.field = <<"p","r","i","o","r","i","t","y">> THEN i.priority ELSE i.energy

\* no item of a level forced out by a value of the map is in the result
ForcedOut(dict) ==
    \A k \in DOMAIN dict : \A n \in DOMAIN dict[k].values :
        \A i \in last.result : LevelOf(i, dict[k]) \notin ForcedLevel(dict[k], dict[k].values[n])

\* C20: a priority or energy value written with a leading '-' removes the items of
\* that level from the result of apply_search, whether the token is in the included
\* map or in the excluded map
C20_ForcedExclusion ==
    Searched => ForcedOut(last.tokens.included) /\ ForcedOut(last.tokens.excluded)

\* the field names the statement lists as recognised
StatedFields ==
    {<<"i","n">>,
     <<"i","s">>,
     <<"h","a","s">>,
     <<"p","r","i","o","r","i","t","y">>,
     <<"e","n","e","r","g","y">>,
     <<"d","u","e">>,
     <<"p","r","o","j","e","c","t">>,
     <<"p","a","r","e","n","t">>,
     <<"c","o","n","t","e","x","t">>,
     <<"a","r","e","a">>,
     <<"t","a","g","s">>,
     <<"w","a","i","t","i","n","g">>,
     <<"i","d">>}

\* the entry of a word that is one field token
EntryOf(word) ==
    LET tokens == parse(word)
    IN  IF tokens.included # <<>> THEN tokens.included[1] ELSE tokens.excluded[1]

\* the word is one field token, its field outside fields or none of its values
\* recognised by its field
NoConstraint(word, fields) ==
    LET tokens == parse(word)
    IN  /\ Len(tokens.included) + Len(tokens.excluded) = 1
        /\ tokens.query = <<>>
        /\ \/ EntryOf(word).field \notin fields
           \/ EntryOf(word).field \in {<<"i","n">>, <<"p","r","i","o","r","i","t","y">>, <<"e","n","e","r","g","y">>} /\ ~Constrains(EntryOf(word))

\* the words but the k-th, joined by single spaces
Without(words, k) ==
    Join(SubSeq(words, 1, k - 1) \o SubSeq(words, k + 1, Len(words)), <<" ">>)

\* the result is that of the query without any one token that is none of fields
\* or has no recognised value
SameWithout(fields) ==
    LET words == WordsOf(last.query, 1, <<>>)
    IN  \A k \in DOMAIN words :
            NoConstraint(words[k], fields)
                => last.result = apply_search(last.queryset, Without(words, k))

\* C21 as stated: a token whose field name is outside in, is, has, priority, energy,
\* due, project, parent, context, area, tags, waiting, id, or whose value its field
\* does not recognise, contributes no constraint: apply_search returns the same
\* items as for the query without that token, included or excluded
C21_UnknownTokenNoConstraint == Searched => SameWithout(StatedFields)

\* C21 amended: the same with tag among the recognised field names
C21_UnbranchedTokenNoConstraint == Searched => SameWithout(KnownFields)

\* a query with an unknown field or an unrecognised value beside a token that
\* constrains: the result is a proper part of the queryset
C21_Witness ==
    /\ Searched
    /\ \E k \in DOMAIN WordsOf(last.query, 1, <<>>) :
           NoConstraint(WordsOf(last.query, 1, <<>>)[k], KnownFields)
    /\ last.result # last.queryset
    /\ last.result # {}

\* every character of the query is whitespace
Blank(query) == \A n \in DOMAIN query : IsSpace(query[n])

\* C22: apply_search on an empty or whitespace-only query returns the input
\* collection unmodified
C22_BlankQueryReturnsCollection ==
    Searched /\ Blank(last.query) => last.result = last.queryset

\* a query of whitespace alone searched in a collection that is not empty
C22_Witness ==
    /\ Searched
    /\ last.query # <<>>
    /\ Blank(last.query)
    /\ last.queryset # {}
    /\ last.result = last.queryset

\* what get_filters_with_state returns for the k-th filter
FilterWithState(query, k) ==
    LET st == FilterState(parse(query), ThreadCatalog[k])
    IN  [active |-> st.active, inversed |-> st.inversed,
         next_query |-> generate_future_query(query, ThreadCatalog[k], st, "None")]

\* the call of thread t has returned what it returns when it runs alone
ReturnsAsAlone(t) ==
    LET f == frames[t]
    IN  f.pc = "done" =>
          CASE f.op = "parse" -> heap[f.tokens] = parse(f.query)
            [] f.op = "generate_future_query" ->
                 f.result = generate_future_query(f.query, f.filter, f.state, "None")
            [] OTHER ->
                 f.result = [k \in DOMAIN ThreadCatalog |-> FilterWithState(f.query, k)]

\* the tokens handed to apply_tokens_to_filters are those of the query
ArgumentKept(t) ==
    LET f == frames[t]
    IN  f.op = "get_filters_with_state" /\ f.outer # 0 => heap[f.outer] = parse(f.query)

\* C23: parse, generate_future_query and get_filters_with_state keep no mutable
\* state between calls: under any interleaving of calls on a shared SearchParser or
\* SearchFilter each call returns the result it returns when run alone, and no call
\* changes its arguments or a SearchTokens value returned by an earlier call
C23_CallsIndependent ==
    \A t \in Threads : ReturnsAsAlone(t) /\ ArgumentKept(t)

\* a call of parse has returned its tokens and, after it, another thread has run
\* generate_future_query on the same query to its end
C23_Witness ==
    \E t, u \in Threads :
        /\ frames[t].pc = "done" /\ frames[t].op = "parse"
        /\ frames[u].pc = "done" /\ frames[u].op = "generate_future_query"
        /\ frames[u].query = frames[t].query
        /\ frames[u].tokens > frames[t].tokens
        /\ heap[frames[u].tokens] # heap[frames[t].tokens]

\* two different rows of the log are of different items or of different times
OneLogEach ==
    \A n, m \in DOMAIN logs :
        n # m => logs[n].item # logs[m].item \/ logs[n].reminded_at # logs[m].reminded_at

\* the last call failed to send for a log that existed and was active
FailedRetry == reminded.failed /\ ~reminded.created

\* C24: reminder retries are bounded: one (item, reminded_at) has a single log; a
\* failed send on an existing active log updates that log and adds exactly 1 to
\* nb_retry; a log whose nb_retry has reached MAX_REMINDER_THRESHOLD is inactive, no
\* email is attempted for an inactive log, and nb_retry never exceeds the threshold
C24_RetriesBounded ==
    /\ OneLogEach
    /\ FailedRetry =>
          /\ Len(logs) = reminded.count
          /\ logs[reminded.log].nb_retry = reminded.before.nb_retry + 1
          /\ logs[reminded.log].reminded_at = reminded.before.reminded_at
    /\ \A n \in DOMAIN logs :
          /\ logs[n].nb_retry <= MAX_REMINDER_THRESHOLD
          /\ logs[n].nb_retry >= MAX_REMINDER_THRESHOLD => ~logs[n].active
    /\ reminded.log # 0 /\ reminded.before # NoLog /\ ~reminded.before.active =>
          /\ ~reminded.attempted
          /\ logs[reminded.log] = reminded.before

\* the second log, created by the service, has failed up to the threshold, is
\* inactive, and its reminder came once more
C24_Witness ==
    /\ reminded.log # 0
    /\ reminded.before # NoLog
    /\ ~reminded.before.active
    /\ reminded.before.nb_retry = MAX_REMINDER_THRESHOLD
    /\ reminded.log = 2

\* the names of the available transitions, in their order
Available == [n \in DOMAIN get_available_transitions(item) |->
                 get_available_transitions(item)[n].name]

\* C25: in every status other than cancelled the cancel transition is available and
\* is the last element of get_available_transitions; in status cancelled it is not
\* available
C25_CancelLast ==
    IF item.status # "cancelled"
    THEN Available # <<>> /\ Available[Len(Available)] = "cancel"
    ELSE \A n \in DOMAIN Available : Available[n] # "cancel"

\* an item brought to next_action, where four transitions are available, the
\* cancellation behind the three that dir() lists after it
C25_Witness ==
    /\ fired.name # "none"
    /\ Len(Available) = 4
    /\ Available[4] = "cancel"
    /\ \E n \in 1..3 : Available[n] = "delegate"

\* C30: after any sequence of transitions, each followed by its save, on an item
\* created in inbox and not completed, is_completed is true only when the status is
\* completed or cancelled, and a status of completed comes with is_completed true
C30_CompletedOnlyWhenClosed ==
    /\ item.is_completed => item.status \in {"completed", "cancelled"}
    /\ item.status = "completed" => item.is_completed

\* a chip has been clicked
Clicked == last.op = "click"

\* C26: clicking lights the chip: a catalog filter that get_filters_with_state
\* reports inactive on a query is reported active and not inversed on its
\* next_query
C26_ClickLightsChip ==
    Clicked /\ ~last.state.active =>
        FilterState(parse(search_query), last.filter)
            = [active |-> TRUE, inversed |-> FALSE]

\* the pairs of field and value of the query in the search box, by map
NowIn == PairsOf(parse(search_query).included)

NowEx == PairsOf(parse(search_query).excluded)

SingleFields ==
    {<<"i","n">>, <<"p","r","i","o","r","i","t","y">>, <<"e","n","e","r","g","y">>, <<"p","r","o","j","e","c","t">>, <<"i","s">>}

\* the number of values of the field in the query in the search box
ValuesNow(f) ==
    Len(Values(parse(search_query).included, f))
      + Len(Values(parse(search_query).excluded, f))

C29_OtherCategoriesKept ==
    Clicked /\ FILTER_STRATEGY_MAP[last.filter.category] # "replace" =>
        \A G \in UserCatalog :
            G.category # last.filter.category =>
                FilterState(parse(search_query), G) = FilterState(parse(last.query), G)

====
